---- MODULE Spec2Model ----
(***************************************************************************)
(* A model of src/utils/file_system.rs: the Entry trait, its blanket       *)
(* implementation for File values and its implementation for Directory,    *)
(* run against a model of the host filesystem (std::fs::File::create_new,  *)
(* std::fs::create_dir, std::io::Write and std::path::Path::join).         *)
(*                                                                         *)
(* One action is one filesystem call of a create invocation together with  *)
(* the control flow that follows it up to the next filesystem call (the ?  *)
(* propagation, the return to the enclosing loop, the choice of the next   *)
(* (name, entry) pair the HashMap iterator yields).                        *)
(***************************************************************************)
EXTENDS Integers, Sequences, FiniteSets, TLC

\* the largest Entry tree (number of entries) a single caller materializes
MaxNodes == 3
\* the largest Entry tree of the calls followed to their end under fairness
MaxFairNodes == 2

---------------------------------------------------------------------------
(* Paths.  A resolved path is a sequence of normal segments from the root;  *)
(* a raw path (what the program hands to the OS) may also hold "..".       *)

Root == <<>>
Up == ".."

\* an OsString key of a Directory: relative or absolute, one or more components
OsString(abs, comps) == [abs |-> abs, comps |-> comps]

\* the keys the modelled Directory maps hold
Names ==
    { OsString(FALSE, <<"a">>),
      OsString(FALSE, <<"b">>),
      OsString(FALSE, <<"a", "b">>),
      OsString(FALSE, <<Up, "b">>),
      OsString(TRUE, <<"b">>) }

\* the name alone, taken from the working directory instead of from path
join_unanchored(path, name) == name.comps

\* Path::join: an absolute component replaces the path, a relative one is appended
join(path, name) == IF name.abs THEN name.comps ELSE path \o name.comps

\* one step of the kernel's path walk
StepInto(cur, comp) ==
    IF comp = Up
    THEN (IF cur = Root THEN Root ELSE SubSeq(cur, 1, Len(cur) - 1))
    ELSE Append(cur, comp)

RECURSIVE Normalize(_, _)
\* the location a raw path names, ".." applied component by component
Normalize(cur, raw) ==
    IF raw = <<>> THEN cur ELSE Normalize(StepInto(cur, Head(raw)), Tail(raw))

IsPrefix(p, q) == Len(p) <= Len(q) /\ SubSeq(q, 1, Len(p)) = p

---------------------------------------------------------------------------
(* The filesystem: a function from the resolved paths that exist to nodes. *)

DirNode == [kind |-> "dir", data |-> <<>>]
FileNode(d) == [kind |-> "file", data |-> d]

IsDirAt(f, p) == p \in DOMAIN f /\ f[p].kind = "dir"

RECURSIVE WalkFrom(_, _, _)
\* path resolution for a creating call: every component but the last must be
\* an existing directory; the last names the object to create
WalkFrom(f, cur, rest) ==
    IF rest = <<>> THEN [err |-> "none", target |-> cur]
    ELSE LET nxt == StepInto(cur, Head(rest)) IN
         IF Len(rest) = 1 THEN [err |-> "none", target |-> nxt]
         ELSE IF nxt \notin DOMAIN f THEN [err |-> "NotFound", target |-> Root]
         ELSE IF f[nxt].kind # "dir" THEN [err |-> "NotADirectory", target |-> Root]
         ELSE WalkFrom(f, nxt, Tail(rest))

Walk(f, raw) == WalkFrom(f, Root, raw)

\* what a creating call does with a fresh node: fail on an unresolvable or
\* existing path, never create a missing parent
CreateNode(f, raw, node) ==
    LET w == Walk(f, raw) IN
    IF w.err # "none" THEN [err |-> w.err, target |-> Root, fs |-> f]
    ELSE IF w.target \in DOMAIN f
         THEN [err |-> "AlreadyExists", target |-> w.target, fs |-> f]
         ELSE [err |-> "none", target |-> w.target, fs |-> (w.target :> node) @@ f]

RECURSIVE create_dir_all(_, _)
\* std::fs::create_dir_all, which creates the missing ancestors first
create_dir_all(f, raw) ==
    LET r == CreateNode(f, raw, DirNode) IN
    IF r.err = "NotFound" /\ raw # Root
    THEN LET up == create_dir_all(f, SubSeq(raw, 1, Len(raw) - 1)) IN
         IF up.err # "none" THEN up ELSE CreateNode(up.fs, raw, DirNode)
    ELSE r

\* std::fs::create_dir
create_dir(f, raw) == CreateNode(f, raw, DirNode)

\* std::fs::File::create: create the file or truncate the one that exists
create_or_truncate(f, raw) ==
    LET w == Walk(f, raw) IN
    IF w.err = "none" /\ w.target \in DOMAIN f /\ f[w.target].kind = "file"
    THEN [err |-> "none", target |-> w.target,
          fs |-> [f EXCEPT ![w.target] = FileNode(<<>>)]]
    ELSE CreateNode(f, raw, FileNode(<<>>))

\* std::fs::File::create_new: a new, empty file
create_new(f, raw) == CreateNode(f, raw, FileNode(<<>>))

\* a single Write::write call that comes back short: one byte reaches the file
write_short(f, handle, text) ==
    [f EXCEPT ![handle] = FileNode(f[handle].data \o SubSeq(text, 1, 1))]

\* write!(buffer, ..) that completes: the bytes follow what the handle wrote
write_all(f, handle, text) ==
    [f EXCEPT ![handle] = FileNode(f[handle].data \o text)]

---------------------------------------------------------------------------
(* Entries.                                                                *)

\* the test module's File implementors: CharFile = char, StringFile = String
CharFile(c) == [char |-> c]
StringFile(s) == [string |-> s]

Values == { CharFile("a"), StringFile(<<"b", "c">>) }

\* Display: a char renders as the one-character text, a String as itself
Render(v) == IF "char" \in DOMAIN v THEN <<v.char>> ELSE v.string

File(v) == [value |-> v]
Directory(children) == [children |-> children]

IsFile(e) == "value" \in DOMAIN e

RECURSIVE EntriesOfSize(_), ChildMaps(_, _)
\* the maps from a subset of S to entries that hold m entries in all
ChildMaps(S, m) ==
    IF m = 0 THEN {<<>>}
    ELSE IF S = {} THEN {}
    ELSE LET n == CHOOSE x \in S : TRUE
             rest == S \ {n}
         IN  ChildMaps(rest, m)
             \cup UNION { { (n :> e) @@ g : e \in EntriesOfSize(k),
                                             g \in ChildMaps(rest, m - k) }
                          : k \in 1..m }

\* the Entry trees of exactly n entries
EntriesOfSize(n) ==
    IF n = 0 THEN {}
    ELSE (IF n = 1 THEN { File(v) : v \in Values } ELSE {})
         \cup { Directory(g) : g \in ChildMaps(Names, n - 1) }

Entries == UNION { EntriesOfSize(n) : n \in 1..MaxNodes }
\* the entries without children: a File, an empty Directory
Leaves == EntriesOfSize(1)
FairEntries == UNION { EntriesOfSize(n) : n \in 1..MaxFairNodes }

---------------------------------------------------------------------------
(* The program state.                                                      *)

VARIABLES
    fs,        \* the filesystem
    fs0,       \* the filesystem before any call (never changes)
    call,      \* caller -> the (entry, path) of its create call (never changes)
    stack,     \* caller -> the create invocations in progress, innermost last
    result,    \* caller -> idle, running, or what its create call returned
    log,       \* caller -> the create invocations started, in order, and their effect
    touched    \* caller -> the filesystem objects it created or wrote to

vars == <<fs, fs0, call, stack, result, log, touched>>

Callers == {1, 2}

\* the paths a caller passes to create
Paths == { <<"a">>, <<"a", "b">> }

\* the filesystems a call may find
InitFS ==
    { (Root :> DirNode),
      (Root :> DirNode) @@ (<<"a">> :> DirNode),
      (Root :> DirNode) @@ (<<"a">> :> FileNode(<<"q">>)),
      (Root :> DirNode) @@ (<<"a">> :> DirNode) @@ (<<"a", "b">> :> FileNode(<<"q">>)) }

Idle == [st |-> "idle", err |-> "none"]
Running == [st |-> "running", err |-> "none"]
Ok == [st |-> "ok", err |-> "none"]
Err(kind) == [st |-> "err", err |-> kind]

Top(stk) == stk[Len(stk)]
Pop(stk) == SubSeq(stk, 1, Len(stk) - 1)

\* a create invocation about to make its first filesystem call;
\* pos is the key path of the entry in the caller's tree, parent the log
\* index of the enclosing Directory invocation (0 for the caller's own call)
Enter(e, raw, pos, parent) ==
    [entry |-> e, raw |-> raw, pos |-> pos, parent |-> parent, id |-> 0,
     pc |-> IF IsFile(e) THEN "create_new" ELSE "create_dir",
     todo |-> {}, handle |-> Root]

Attempt(fr, r) ==
    [pos |-> fr.pos, raw |-> fr.raw, parent |-> fr.parent,
     kind |-> IF IsFile(fr.entry) THEN "file" ELSE "dir",
     target |-> r.target, created |-> r.err = "none", err |-> r.err]

\* one caller invokes create(e, p) on filesystem f
OneCall(e, p, f) ==
    /\ fs = f
    /\ fs0 = f
    /\ call = (1 :> [entry |-> e, path |-> p])
    /\ stack = (1 :> <<Enter(e, p, <<>>, 0)>>) @@ (2 :> <<>>)
    /\ result = (1 :> Running) @@ (2 :> Idle)
    /\ log = [c \in Callers |-> <<>>]
    /\ touched = [c \in Callers |-> {}]

Init == \E e \in Entries, p \in Paths, f \in InitFS : OneCall(e, p, f)

InitFair == \E e \in FairEntries, p \in Paths, f \in InitFS : OneCall(e, p, f)

\* the path two racing callers pass to create
RacePath == <<"a", "b">>

\* two callers invoke create on the same path: the first with any tree, the
\* second with a File or an empty Directory; either may come first
InitRace ==
    \E e1 \in Entries, e2 \in Leaves, p \in {RacePath}, f \in InitFS :
        /\ fs = f
        /\ fs0 = f
        /\ call = (1 :> [entry |-> e1, path |-> p]) @@ (2 :> [entry |-> e2, path |-> p])
        /\ stack = (1 :> <<Enter(e1, p, <<>>, 0)>>) @@ (2 :> <<Enter(e2, p, <<>>, 0)>>)
        /\ result = [c \in Callers |-> Running]
        /\ log = [c \in Callers |-> <<>>]
        /\ touched = [c \in Callers |-> {}]

RECURSIVE Unwind(_)
\* the invocations that are done return Ok to their callers: a Directory whose
\* iterator is exhausted returns in turn
Unwind(stk) ==
    IF stk = <<>> THEN <<>>
    ELSE IF Top(stk).todo = {} THEN Unwind(Pop(stk))
    ELSE stk

\* a loop that returns after its first pair
RemainingNone(todo, name) == {}

\* what is left of the iteration once name has been yielded
Remaining(todo, name) == todo \ {name}

\* the innermost invocation of stk returned Ok, or stk's innermost Directory
\* starts its loop: control goes back to `for (name, entry) in self`, which
\* yields any pair not yet yielded, or ends the call
Iterate(c, stk) ==
    LET u == Unwind(stk) IN
    IF u = <<>>
    THEN /\ stack' = [stack EXCEPT ![c] = <<>>]
         /\ result' = [result EXCEPT ![c] = Ok]
    ELSE \E name \in Top(u).todo :
            LET d == Top(u)
                child == Enter(d.entry.children[name], join(d.raw, name),
                               Append(d.pos, name), d.id)
            IN  /\ stack' = [stack EXCEPT ![c] =
                                Append(Pop(u) \o <<[d EXCEPT !.todo = Remaining(d.todo, name)]>>,
                                       child)]
                /\ UNCHANGED result

\* an error that is answered by trying the failed invocation again
PropagateRetry(c, kind) == UNCHANGED <<stack, result>>

\* an error that is dropped: the enclosing loop goes on with the next pair
PropagateDropped(c, kind) == Iterate(c, Pop(stack[c]))

\* the ? operator: the error leaves every enclosing invocation at once and is
\* what the caller's create returns
Propagate(c, kind) ==
    /\ stack' = [stack EXCEPT ![c] = <<>>]
    /\ result' = [result EXCEPT ![c] = Err(kind)]

\* create_dir(path) with its result ignored
DirFailedIgnored(r) == FALSE

\* the ? of create_dir(path)?: an error of create_dir ends the invocation
DirFailed(r) == r.err # "none"

\* create_dir(path)?  then the first pair of the loop
DirCreate(c) ==
    /\ stack[c] # <<>>
    /\ Top(stack[c]).pc = "create_dir"
    /\ LET fr == Top(stack[c])
           r == create_dir(fs, fr.raw)
           id == Len(log[c]) + 1
       IN  /\ log' = [log EXCEPT ![c] = Append(@, Attempt(fr, r))]
           /\ fs' = r.fs
           /\ IF DirFailed(r)
              THEN /\ Propagate(c, r.err)
                   /\ UNCHANGED touched
              ELSE /\ touched' = [touched EXCEPT ![c] = @ \cup {r.target}]
                   /\ Iterate(c, Pop(stack[c]) \o
                                 <<[fr EXCEPT !.id = id, !.pc = "iter",
                                              !.todo = DOMAIN fr.entry.children,
                                              !.handle = r.target]>>)
    /\ UNCHANGED <<fs0, call>>

\* let mut buffer = fs::File::create_new(path)?
FileCreateNew(c) ==
    /\ stack[c] # <<>>
    /\ Top(stack[c]).pc = "create_new"
    /\ LET fr == Top(stack[c])
           r == create_new(fs, fr.raw)
           id == Len(log[c]) + 1
       IN  /\ log' = [log EXCEPT ![c] = Append(@, Attempt(fr, r))]
           /\ fs' = r.fs
           /\ IF r.err # "none"
              THEN /\ Propagate(c, r.err)
                   /\ UNCHANGED touched
              ELSE /\ touched' = [touched EXCEPT ![c] = @ \cup {r.target}]
                   /\ stack' = [stack EXCEPT ![c] =
                                   Pop(@) \o <<[fr EXCEPT !.id = id, !.pc = "write",
                                                          !.handle = r.target]>>]
                   /\ UNCHANGED result
    /\ UNCHANGED <<fs0, call>>

\* write!(buffer, "{}", self)?; Ok(())  with the write completing
FileWrite(c) ==
    /\ stack[c] # <<>>
    /\ Top(stack[c]).pc = "write"
    /\ LET fr == Top(stack[c]) IN
           /\ fs' = write_all(fs, fr.handle, Render(fr.entry.value))
           /\ touched' = [touched EXCEPT ![c] = @ \cup {fr.handle}]
           /\ Iterate(c, Pop(stack[c]))
    /\ UNCHANGED <<fs0, call, log>>

\* write!(buffer, "{}", self)?  with the host failing the write (storage
\* full, say) after some of the text, possibly none, reached the file
FileWriteFail(c) ==
    /\ stack[c] # <<>>
    /\ Top(stack[c]).pc = "write"
    /\ LET fr == Top(stack[c])
           text == Render(fr.entry.value)
       IN  \E k \in 0..(Len(text) - 1) :
               /\ fs' = write_all(fs, fr.handle, SubSeq(text, 1, k))
               /\ touched' = [touched EXCEPT ![c] = @ \cup {fr.handle}]
               /\ log' = [log EXCEPT ![c][fr.id].err = "StorageFull"]
               /\ Propagate(c, "StorageFull")
    /\ UNCHANGED <<fs0, call>>

Next ==
    \E c \in Callers :
        \/ DirCreate(c)
        \/ FileCreateNew(c)
        \/ FileWrite(c)
        \/ FileWriteFail(c)

Spec == Init /\ [][Next]_vars

SpecRace == InitRace /\ [][Next]_vars

\* a create call is synchronous: once invoked it keeps running
FairSpec == InitFair /\ [][Next]_vars /\ WF_vars(Next)

RECURSIVE RefCreate(_, _, _), RefChildren(_, _, _, _)
\* Entry::create run to its end on filesystem f with no host write failure,
\* the pairs of every Directory taken in one fixed order: what it returns
\* and the filesystem it leaves
RefCreate(e, raw, f) ==
    IF IsFile(e)
    THEN LET r == create_new(f, raw) IN
         IF r.err # "none" THEN [err |-> r.err, fs |-> f]
         ELSE [err |-> "none", fs |-> write_all(r.fs, r.target, Render(e.value))]
    ELSE LET r == create_dir(f, raw) IN
         IF r.err # "none" THEN [err |-> r.err, fs |-> f]
         ELSE RefChildren(e, raw, r.fs, DOMAIN e.children)

RefChildren(e, raw, f, todo) ==
    IF todo = {} THEN [err |-> "none", fs |-> f]
    ELSE LET name == CHOOSE n \in todo : TRUE
             r == RefCreate(e.children[name], join(raw, name), f)
         IN  IF r.err # "none" THEN r
             ELSE RefChildren(e, raw, r.fs, todo \ {name})

---------------------------------------------------------------------------
(* Vocabulary of the properties.                                           *)

Done(c) == result[c].st \in {"ok", "err"}

Last(sq) == sq[Len(sq)]

RECURSIVE EntryAt(_, _)
\* the entry of tree e under the key path pos
EntryAt(e, pos) ==
    IF pos = <<>> THEN e ELSE EntryAt(e.children[Head(pos)], Tail(pos))

\* a single normal path segment: relative, one component, not ".."
PlainName(n) == ~n.abs /\ Len(n.comps) = 1 /\ n.comps[1] # Up

RECURSIVE PlainTree(_)
PlainTree(e) ==
    IsFile(e) \/ \A n \in DOMAIN e.children :
                    PlainName(n) /\ PlainTree(e.children[n])

\* the object a raw path names; the path resolves when every component
\* before the last is an existing directory
At(raw) == Normalize(Root, raw)
Resolves(f, raw) ==
    \A k \in 1..(Len(raw) - 1) : IsDirAt(f, At(SubSeq(raw, 1, k)))
ExistsAt(f, raw) == Resolves(f, raw) /\ At(raw) \in DOMAIN f
ParentMissing(f, raw) ==
    raw # Root /\ ~IsDirAt(f, At(SubSeq(raw, 1, Len(raw) - 1)))

\* caller c is about to make the creating call of an invocation, and does
Creating(c) ==
    /\ stack[c] # <<>>
    /\ Top(stack[c]).pc \in {"create_dir", "create_new"}
    /\ log'[c] # log[c]

\* the index in log[c] of the invocations that have returned Ok
Returned(c, i) ==
    /\ log[c][i].created
    /\ log[c][i].err = "none"
    /\ \A k \in 1..Len(stack[c]) : stack[c][k].id # i

DirectChildren(f, t) == { q \in DOMAIN f : Len(q) = Len(t) + 1 /\ IsPrefix(t, q) }

RECURSIVE Materialized(_, _, _)
\* entry e is materialized at t: a file holding exactly its rendering, or a
\* directory holding exactly one materialized child per (name, child) pair
Materialized(f, e, t) ==
    IF IsFile(e)
    THEN t \in DOMAIN f /\ f[t] = FileNode(Render(e.value))
    ELSE /\ IsDirAt(f, t)
         /\ \A n \in DOMAIN e.children :
                Materialized(f, e.children[n], At(join(t, n)))
         /\ DirectChildren(f, t) = { At(join(t, n)) : n \in DOMAIN e.children }
         /\ Cardinality(DirectChildren(f, t)) = Cardinality(DOMAIN e.children)

---------------------------------------------------------------------------
(* C1: every File invocation that returned success left, at its path, a    *)
(* file whose complete contents are exactly the rendering of its value.    *)
C1_FileHoldsRendering ==
    \A c \in DOMAIN call : \A i \in 1..Len(log[c]) :
        (log[c][i].kind = "file" /\ Returned(c, i)) =>
            /\ At(log[c][i].raw) \in DOMAIN fs
            /\ fs[At(log[c][i].raw)] =
                   FileNode(Render(EntryAt(call[c].entry, log[c][i].pos).value))

C1_Witness ==
    /\ IsFile(call[1].entry)
    /\ call[1].entry.value = StringFile(<<"b", "c">>)
    /\ result[1] = Ok
    /\ fs[call[1].path].data = <<"b", "c">>

(* C2 as stated: a Directory call that returned success left, at its path, *)
(* a directory holding exactly one materialized child per pair, at every   *)
(* depth, whatever the names.                                              *)
C2_AnyNames ==
    \A c \in DOMAIN call :
        (~IsFile(call[c].entry) /\ result[c] = Ok) =>
            Materialized(fs, call[c].entry, At(call[c].path))

(* C2: a Directory call whose names are all single normal path segments    *)
(* and that returned success left, at its path, a directory holding        *)
(* exactly one materialized child per pair, at every depth.                *)
C2_DirectoryMaterialized ==
    \A c \in DOMAIN call :
        (~IsFile(call[c].entry) /\ PlainTree(call[c].entry) /\ result[c] = Ok) =>
            Materialized(fs, call[c].entry, At(call[c].path))

C2_Witness ==
    /\ ~IsFile(call[1].entry)
    /\ PlainTree(call[1].entry)
    /\ Cardinality(DOMAIN call[1].entry.children) = 2
    /\ result[1] = Ok
    /\ Cardinality(DirectChildren(fs, call[1].path)) = 2

(* C3: a creating call on a path at which an object exists fails with      *)
(* AlreadyExists, ends the whole create call with that error (no child is  *)
(* started) and leaves the filesystem as it was.                           *)
C3_ExistingPathFails ==
    [][\A c \in Callers :
         (Creating(c) /\ ExistsAt(fs, Top(stack[c]).raw)) =>
            /\ fs' = fs
            /\ Last(log'[c]).err = "AlreadyExists"
            /\ result'[c] = Err("AlreadyExists")
            /\ stack'[c] = <<>>]_vars

C3_Witness ==
    /\ call[1].path = <<"a">>
    /\ ~IsFile(call[1].entry)
    /\ DOMAIN call[1].entry.children # {}
    /\ <<"a", "b">> \in DOMAIN fs0
    /\ result[1] = Err("AlreadyExists")
    /\ Len(log[1]) = 1
    /\ fs = fs0

(* C4: every child invocation was started by a Directory invocation that   *)
(* had already created its directory, at that directory's path joined      *)
(* with the child's name; a Directory whose creation failed started none.  *)
C4_ParentBeforeChild ==
    \A c \in DOMAIN call : \A i \in 1..Len(log[c]) :
        LET a == log[c][i] IN
        /\ a.parent = 0 => (i = 1 /\ a.raw = call[c].path /\ a.pos = <<>>)
        /\ a.parent # 0 =>
              /\ a.parent < i
              /\ log[c][a.parent].kind = "dir"
              /\ log[c][a.parent].created
              /\ IsDirAt(fs, log[c][a.parent].target)
              /\ a.pos # <<>>
              /\ a.raw = join(log[c][a.parent].raw, Last(a.pos))
        /\ (a.kind = "dir" /\ ~a.created) =>
              \A j \in 1..Len(log[c]) : log[c][j].parent # i

C4_Witness ==
    /\ Len(log[1]) = 3
    /\ log[1][2].parent = 1
    /\ log[1][3].parent = 2
    /\ log[1][3].created

(* C5: an invocation that fails is the last one the call starts; its       *)
(* error is what the call returns, unchanged; and what was created before  *)
(* it stays on disk.                                                       *)
C5_FirstFailureAborts ==
    \A c \in DOMAIN call :
        /\ \A i \in 1..Len(log[c]) :
              /\ log[c][i].err # "none" =>
                    /\ i = Len(log[c])
                    /\ stack[c] = <<>>
                    /\ result[c] = Err(log[c][i].err)
              /\ log[c][i].created =>
                    /\ log[c][i].target \in DOMAIN fs
                    /\ fs[log[c][i].target].kind = log[c][i].kind
        /\ result[c].st = "err" =>
              /\ log[c] # <<>>
              /\ Last(log[c]).err = result[c].err

C5_Witness ==
    /\ Len(log[1]) = 2
    /\ log[1][1].created
    /\ log[1][2].err = "NotFound"
    /\ Cardinality(DOMAIN call[1].entry.children) = 2
    /\ result[1] = Err("NotFound")
    /\ IsDirAt(fs, log[1][1].target)

(* C6: a creating call on a path whose parent directory does not exist     *)
(* fails, ends the whole create call, and creates nothing.                 *)
C6_NoImplicitParent ==
    [][\A c \in Callers :
         (Creating(c) /\ ParentMissing(fs, Top(stack[c]).raw)) =>
            /\ fs' = fs
            /\ result'[c].st = "err"
            /\ stack'[c] = <<>>]_vars

C6_Witness ==
    /\ call[1].path = <<"a", "b">>
    /\ <<"a">> \notin DOMAIN fs0
    /\ ~IsFile(call[1].entry)
    /\ Len(log[1]) = 1
    /\ result[1] = Err("NotFound")
    /\ fs = fs0

---------------------------------------------------------------------------
(* The race of two callers on one path.                                    *)

Attempted == { c \in DOMAIN call : log[c] # <<>> }
Winners == { c \in Attempted : log[c][1].created }

IsPrefixText(s, t) == Len(s) <= Len(t) /\ SubSeq(t, 1, Len(s)) = s

\* the loser got AlreadyExists from its first call and did nothing else
LoserStopped(c) ==
    /\ result[c] = Err("AlreadyExists")
    /\ Len(log[c]) = 1
    /\ touched[c] = {}

\* what exists at or beneath p and did not before was created by caller c
OwnsSubtree(c, p) ==
    \A q \in DOMAIN fs \ DOMAIN fs0 : IsPrefix(p, q) => q \in touched[c]

RaceOutcome(p) ==
    /\ Attempted # {} => Cardinality(Winners) = 1
    /\ \A c \in Attempted \ Winners : LoserStopped(c)
    /\ \A c \in Winners : OwnsSubtree(c, p)

(* C7 as stated: two callers on the same path that did not exist: exactly  *)
(* one creates it, the other fails with AlreadyExists having written       *)
(* nothing, and what is left at the path is the winner's: for a File, once *)
(* both calls are over, its rendering.                                     *)
C7_AnyFreshPath ==
    (DOMAIN call = Callers /\ call[1].path = call[2].path
        /\ At(call[1].path) \notin DOMAIN fs0) =>
       /\ RaceOutcome(At(call[1].path))
       /\ \A c \in Winners :
             (IsFile(call[c].entry) /\ \A d \in Callers : Done(d)) =>
                fs[At(call[c].path)] = FileNode(Render(call[c].entry.value))

(* C7: two callers on the same path that did not exist and whose parent    *)
(* directory exists: exactly one creates it, the other fails with          *)
(* AlreadyExists having written nothing, and what is left at the path is   *)
(* the winner's: for a File, text of the winner's rendering only, and the  *)
(* whole rendering once the winner's call has returned success.            *)
C7_RaceHasOneWinner ==
    (DOMAIN call = Callers /\ call[1].path = call[2].path
        /\ At(call[1].path) \notin DOMAIN fs0
        /\ ~ParentMissing(fs0, call[1].path)) =>
       /\ RaceOutcome(At(call[1].path))
       /\ \A c \in Winners :
             IsFile(call[c].entry) =>
                /\ fs[At(call[c].path)].kind = "file"
                /\ IsPrefixText(fs[At(call[c].path)].data, Render(call[c].entry.value))
                /\ result[c] = Ok =>
                      fs[At(call[c].path)] = FileNode(Render(call[c].entry.value))

C7_Witness ==
    /\ DOMAIN call = Callers
    /\ At(call[1].path) \notin DOMAIN fs0
    /\ IsFile(call[2].entry)
    /\ ~IsFile(call[1].entry)
    /\ DOMAIN call[1].entry.children # {}
    /\ result[2] = Ok
    /\ result[1] = Err("AlreadyExists")
    /\ touched[1] = {}
    /\ fs[At(call[2].path)] = FileNode(Render(call[2].entry.value))

---------------------------------------------------------------------------
(* The order of the pairs, the frame, termination.                         *)

\* the call ended and the host failed no write
EndedUnfaulted(c) == Done(c) /\ result[c].err # "StorageFull"

\* every file the call created holds its own entry's rendering
FilesHoldOwn(c) ==
    \A i \in 1..Len(log[c]) :
        log[c][i].kind = "file" =>
            fs[At(log[c][i].raw)] =
                FileNode(Render(EntryAt(call[c].entry, log[c][i].pos).value))

SameAsFixedOrder(c) ==
    LET ref == RefCreate(call[c].entry, call[c].path, fs0) IN
    /\ (result[c] = Ok) <=> (ref.err = "none")
    /\ result[c] = Ok => (fs = ref.fs /\ FilesHoldOwn(c))

(* C8 as stated: whatever the names, a call the host fails no write of     *)
(* ends as the call that takes the pairs in a fixed order ends: the same   *)
(* success or failure and, on success, the same filesystem, every file     *)
(* holding its own rendering.                                              *)
C8_AnyNames ==
    \A c \in DOMAIN call : EndedUnfaulted(c) => SameAsFixedOrder(c)

(* C8: when every name is a single normal path segment, a call the host    *)
(* fails no write of ends as the call that takes the pairs in a fixed      *)
(* order ends: the same success or failure and, on success, the same       *)
(* filesystem, every file holding its own rendering.                       *)
C8_OrderIrrelevant ==
    \A c \in DOMAIN call :
        (EndedUnfaulted(c) /\ PlainTree(call[c].entry)) => SameAsFixedOrder(c)

C8_Witness ==
    /\ result[1] = Ok
    /\ PlainTree(call[1].entry)
    /\ ~IsFile(call[1].entry)
    /\ DOMAIN call[1].entry.children = {OsString(FALSE, <<"a">>), OsString(FALSE, <<"b">>)}
    /\ log[1][2].pos = <<OsString(FALSE, <<"b">>)>>
    /\ IsFile(call[1].entry.children[OsString(FALSE, <<"a">>)])
    /\ fs[Append(call[1].path, "a")].data = <<"a">>

\* a name that stays beneath the path it is joined to
StaysBeneath(n) == ~n.abs /\ \A k \in 1..Len(n.comps) : n.comps[k] # Up

RECURSIVE TreeStaysBeneath(_)
TreeStaysBeneath(e) ==
    IsFile(e) \/ \A n \in DOMAIN e.children :
                    StaysBeneath(n) /\ TreeStaysBeneath(e.children[n])

Created(c) == { i \in 1..Len(log[c]) : log[c][i].created }

\* what existed is as it was; what is new lies at or beneath the call's path,
\* one object per invocation that created one
Frame(c) ==
    /\ \A q \in DOMAIN fs0 : q \in DOMAIN fs /\ fs[q] = fs0[q]
    /\ \A q \in DOMAIN fs \ DOMAIN fs0 : IsPrefix(At(call[c].path), q)
    /\ DOMAIN fs \ DOMAIN fs0 = { log[c][i].target : i \in Created(c) }
    /\ Cardinality(DOMAIN fs \ DOMAIN fs0) = Cardinality(Created(c))

(* C9 as stated: whatever the names, during and after a call what existed  *)
(* before is unchanged and what is new lies at or beneath the call's path, *)
(* one object per entry created.                                           *)
C9_AnyNames ==
    \A c \in DOMAIN call : Frame(c)

(* C9: when no name is absolute or holds a ".." component, during and      *)
(* after a call what existed before is unchanged and what is new lies at   *)
(* or beneath the call's path, one object per entry created.               *)
C9_Frame ==
    \A c \in DOMAIN call : TreeStaysBeneath(call[c].entry) => Frame(c)

C9_Witness ==
    /\ TreeStaysBeneath(call[1].entry)
    /\ ~PlainTree(call[1].entry)
    /\ call[1].path = <<"a", "b">>
    /\ result[1] = Ok
    /\ Cardinality(Created(1)) = 3
    /\ Cardinality(DOMAIN fs) = Cardinality(DOMAIN fs0) + 3

RECURSIVE Size(_, _)
\* the number of entries of a tree: e taken with the children in todo
Size(e, todo) ==
    IF IsFile(e) THEN 1
    ELSE IF todo = {} THEN 1
    ELSE LET n == CHOOSE x \in todo : TRUE IN
         Size(e.children[n], IF IsFile(e.children[n]) THEN {}
                             ELSE DOMAIN e.children[n].children)
         + Size(e, todo \ {n})

AttemptedAtMostOnce(c) ==
    /\ \A i, j \in 1..Len(log[c]) : log[c][i].pos = log[c][j].pos => i = j
    /\ Len(log[c]) <= Size(call[c].entry,
                           IF IsFile(call[c].entry) THEN {}
                           ELSE DOMAIN call[c].entry.children)

Terminal(c) == Done(c) /\ stack[c] = <<>>

(* C10: every create call ends, in success or in the first error, and      *)
(* stays ended; no entry is attempted twice and nothing is attempted       *)
(* after the call has ended.                                               *)
C10_Terminates ==
    /\ <>[](\A c \in DOMAIN call : Terminal(c))
    /\ [](\A c \in DOMAIN call : AttemptedAtMostOnce(c))
    /\ [][\A c \in DOMAIN call :
            Done(c) => (result'[c] = result[c] /\ log'[c] = log[c] /\ fs' = fs)]_vars

C10_Witness ==
    /\ result[1] = Err("StorageFull")
    /\ stack[1] = <<>>
    /\ Len(log[1]) = 2
    /\ log[1][2].kind = "file"
    /\ fs # fs0

====
